---- MODULE Spec2Model ----
(***************************************************************************)
(* Model of the local-disk datastore of Replibyte                          *)
(* (replibyte/src/datastore/local_disk.rs): the catalog file               *)
(* (metadata.json), the dump directories with their chunk files, the       *)
(* engine configuration, and the handlers init, write, read and delete.    *)
(*                                                                         *)
(* Names of dumps are plain directory names (no path separators).          *)
(* Time is counted in whole ticks of the clock read by epoch_millis() and  *)
(* Utc::now(); a duration of N days is N ticks.                            *)
(***************************************************************************)
EXTENDS Integers, Sequences, FiniteSets, TLC

\* ------------------------------------------------------------------ bounds
MaxWrites == 2      \* write calls per behaviour
MaxTime == 1        \* last value of the clock

DefaultName == "dump-0"     \* LocalDisk::new: "dump-<epoch_millis>"
Names == {DefaultName, "dump-1"}
Parts == {1, 2}
Byte == {0, 1}
Keys == {"k1"}
NoKey == "none"

Payloads == {<<>>} \cup {<<b>> : b \in Byte}

\* ------------------------------------------------------------------ state
VARIABLES
    index,              \* the catalog file: [state, backups]
    dirs,               \* dump directories: name -> [exists, files]
    dump_name,          \* LocalDisk.dump_name
    enable_compression, \* LocalDisk.enable_compression
    encryption_key,     \* LocalDisk.encryption_key (NoKey = None)
    now,                \* the clock
    nwrites,            \* number of write calls made
    written,            \* history: name -> the write calls since the directory was created
    op,                 \* the last call: [kind, name, arg, found]
    ret,                \* its result
    delivered,          \* what read handed to data_callback, in order
    inflight            \* other engine instances inside write: writer -> [pc, ..]

vars == <<index, dirs, dump_name, enable_compression, encryption_key, now,
          nwrites, written, op, ret, delivered, inflight>>

NoDir == [exists |-> FALSE, files |-> <<>>]

\* ------------------------------------------------------------------ byte transforms
\* compress / decompress and encrypt / decrypt of datastore/mod.rs: reversible,
\* length-changing, failing on input they did not produce.
GzMagic == 2
EncMagic == 3
ByteRange == 4

KeyShift(key) == IF key = "k1" THEN 1 ELSE 2

compress(data) == <<GzMagic>> \o data

decompress(data) ==
    IF Len(data) > 0 /\ Head(data) = GzMagic
    THEN [ok |-> TRUE, data |-> Tail(data)]
    ELSE [ok |-> FALSE, data |-> <<>>]

encrypt(data, key) ==
    <<EncMagic>> \o [i \in 1..Len(data) |-> (data[i] + KeyShift(key)) % ByteRange]

decrypt(data, key) ==
    IF Len(data) > 0 /\ Head(data) = EncMagic
    THEN [ok |-> TRUE,
          data |-> [i \in 1..(Len(data) - 1) |->
                      (data[i + 1] + ByteRange - KeyShift(key)) % ByteRange]]
    ELSE [ok |-> FALSE, data |-> <<>>]

\* ------------------------------------------------------------------ catalog file
\* index_file(): open + parse; a missing file and an unparsable file are errors.
index_file(idx) ==
    IF idx.state = "ok" THEN [ok |-> TRUE, err |-> "Ok", backups |-> idx.backups]
    ELSE IF idx.state = "absent" THEN [ok |-> FALSE, err |-> "NotFound", backups |-> <<>>]
    ELSE [ok |-> FALSE, err |-> "Corrupt", backups |-> <<>>]

\* write_index_file(): create + truncate + serialize the whole catalog.
write_index_file(backups) == [state |-> "ok", backups |-> backups]

\* create_index_file persisting an empty catalog whatever it finds
create_index_file_always(idx) == write_index_file(<<>>)

\* create_index_file(): the catalog as loaded, or a fresh empty one persisted.
create_index_file(idx) ==
    IF index_file(idx).ok THEN idx ELSE write_index_file(<<>>)

\* position of the first record named name, 0 if none (iter().find)
FindIdx(backups, name) ==
    IF \E i \in 1..Len(backups) : backups[i].directory_name = name
    THEN CHOOSE i \in 1..Len(backups) :
            /\ backups[i].directory_name = name
            /\ \A j \in 1..(i - 1) : backups[j].directory_name # name
    ELSE 0

HasRecord(backups, name) == FindIdx(backups, name) # 0

\* ------------------------------------------------------------------ other writers
\* further engine instances on the same root, each with its own dump name and the
\* default configuration, and how far each has come inside write
Writers == {"w0", "w1"}

WriterName(w) == IF w = "w0" THEN DefaultName ELSE "dump-1"

Idle == [pc |-> "idle", size |-> 0, backups |-> <<>>, ret |-> "Ok"]

\* ------------------------------------------------------------------ history
Touch(w, d) == [n \in Names |-> IF d[n].exists THEN w[n] ELSE <<>>]

Called(kind, name, arg, found) ==
    [kind |-> kind, name |-> name, arg |-> arg, found |-> found]

\* ------------------------------------------------------------------ handlers
Init ==
    /\ index = [state |-> "absent", backups |-> <<>>]
    /\ dirs = [n \in Names |-> NoDir]
    /\ dump_name = DefaultName
    /\ enable_compression = TRUE
    /\ encryption_key = NoKey
    /\ now = 0
    /\ nwrites = 0
    /\ written = [n \in Names |-> <<>>]
    /\ op = Called("new", "", 0, FALSE)
    /\ ret = "Ok"
    /\ delivered = <<>>
    /\ inflight = [w \in Writers |-> Idle]

\* LocalDisk::new on the same root: another engine instance takes over (a later
\* run of the tool) with the default configuration
New ==
    /\ dump_name' = DefaultName
    /\ enable_compression' = TRUE
    /\ encryption_key' = NoKey
    /\ op' = Called("new", "", 0, FALSE)
    /\ ret' = "Ok"
    /\ delivered' = <<>>
    /\ UNCHANGED <<index, dirs, now, nwrites, written, inflight>>

\* a setter returns nothing; the result of an earlier call is no longer at hand
Configured ==
    /\ op' = Called("config", "", 0, FALSE)
    /\ ret' = "Ok"
    /\ delivered' = <<>>

\* Connector::init
InitOp ==
    /\ op' = Called("init", "", 0, index.state = "ok")
    /\ index' = create_index_file(index)
    /\ ret' = "Ok"
    /\ delivered' = <<>>
    /\ UNCHANGED <<dirs, dump_name, enable_compression, encryption_key, now,
                   nwrites, written, inflight>>

SetDumpName(name) ==
    /\ dump_name' = name
    /\ Configured
    /\ UNCHANGED <<index, dirs, enable_compression, encryption_key, now,
                   nwrites, written, inflight>>

SetCompression(enable) ==
    /\ enable_compression' = enable
    /\ Configured
    /\ UNCHANGED <<index, dirs, dump_name, encryption_key, now, nwrites, written,
                   inflight>>

SetEncryptionKey(key) ==
    /\ encryption_key' = key
    /\ Configured
    /\ UNCHANGED <<index, dirs, dump_name, enable_compression, now, nwrites, written,
                   inflight>>

\* the clock advances between calls
Tick ==
    /\ now < MaxTime
    /\ now' = now + 1
    /\ UNCHANGED <<index, dirs, dump_name, enable_compression, encryption_key,
                   nwrites, written, op, ret, delivered, inflight>>

\* the bytes write stores: compress, then encrypt
Transform(data, comp, key) ==
    LET c == IF comp THEN compress(data) ELSE data
    IN  IF key # NoKey THEN encrypt(c, key) ELSE c

\* find-or-create that never adds a record
UpdateBackups_found_only(backups, name, data_size, created_at, comp, enc) ==
    LET i == FindIdx(backups, name)
    IN  IF i = 0 THEN backups
        ELSE [backups EXCEPT ![i].size = backups[i].size + data_size]

\* find-or-create the record and account the chunk (local_disk.rs 120-143)
UpdateBackups(backups, name, data_size, created_at, comp, enc) ==
    LET new_backup == [directory_name |-> name, size |-> 0, created_at |-> created_at,
                       compressed |-> comp, encrypted |-> enc]
        i == FindIdx(backups, name)
        backup == IF i = 0 THEN new_backup ELSE backups[i]
    IN  IF backup.size = 0
        THEN Append(backups, [new_backup EXCEPT !.size = data_size])
        ELSE [backups EXCEPT ![i].size = backup.size + data_size]

\* Datastore::write
Write(file_part, raw) ==
    LET data == Transform(raw, enable_compression, encryption_key)
        data_size == Len(data)
        dir == dirs[dump_name]
        newdirs == [dirs EXCEPT ![dump_name] =
                       [exists |-> TRUE, files |-> (file_part :> data) @@ dir.files]]
        idx == index_file(index)
        call == [part |-> file_part, raw |-> raw, comp |-> enable_compression,
                 key |-> encryption_key, ok |-> idx.ok]
    IN  /\ nwrites < MaxWrites
        /\ nwrites' = nwrites + 1
        /\ dirs' = newdirs
        /\ written' = [written EXCEPT ![dump_name] = Append(@, call)]
        /\ IF idx.ok
           THEN /\ index' = write_index_file(
                        UpdateBackups(idx.backups, dump_name, data_size, now,
                                      enable_compression, encryption_key # NoKey))
                /\ ret' = "Ok"
           ELSE /\ index' = index
                /\ ret' = idx.err
        /\ op' = Called("write", "", 0, HasRecord(index.backups, dump_name))
        /\ delivered' = <<>>
        /\ UNCHANGED <<dump_name, enable_compression, encryption_key, now, inflight>>

\* ------------------------------------------------------------------ write, in steps
\* write of another engine instance up to the chunk file (local_disk.rs 85-111)
RaceStore(w, raw) ==
    LET name == WriterName(w)
        data == Transform(raw, TRUE, NoKey)
    IN  /\ inflight[w].pc \in {"idle", "done"}
        /\ nwrites < MaxWrites
        /\ nwrites' = nwrites + 1
        /\ dirs' = [dirs EXCEPT ![name] =
                       [exists |-> TRUE, files |-> (1 :> data) @@ dirs[name].files]]
        /\ inflight' = [inflight EXCEPT ![w] =
                           [pc |-> "stored", size |-> Len(data), backups |-> <<>>,
                            ret |-> "Ok"]]
        /\ written' = [written EXCEPT ![name] =
                          Append(@, [part |-> 1, raw |-> raw, comp |-> TRUE,
                                     key |-> NoKey, ok |-> FALSE])]
        /\ UNCHANGED <<index, dump_name, enable_compression, encryption_key, now,
                       op, ret, delivered>>

\* its index_file()? (114)
RaceLoad(w) ==
    LET idx == index_file(index)
    IN  /\ inflight[w].pc = "stored"
        /\ inflight' = [inflight EXCEPT ![w] =
                           IF idx.ok
                           THEN [@ EXCEPT !.pc = "loaded", !.backups = idx.backups]
                           ELSE [@ EXCEPT !.pc = "done", !.ret = idx.err]]
        /\ UNCHANGED <<index, dirs, dump_name, enable_compression, encryption_key,
                       now, nwrites, written, op, ret, delivered>>

\* its find-or-create on the catalog it loaded and write_index_file (116-146)
RaceSave(w) ==
    LET name == WriterName(w)
        last == Len(written[name])
    IN  /\ inflight[w].pc = "loaded"
        /\ index' = write_index_file(
                        UpdateBackups(inflight[w].backups, name, inflight[w].size,
                                      now, TRUE, FALSE))
        /\ inflight' = [inflight EXCEPT ![w] = [@ EXCEPT !.pc = "done"]]
        /\ written' = [written EXCEPT ![name][last].ok = TRUE]
        /\ UNCHANGED <<dirs, dump_name, enable_compression, encryption_key, now,
                       nwrites, op, ret, delivered>>

\* ------------------------------------------------------------------ write, failing
\* the steps of write that can fail on their own: the transforms (86, 93), the
\* directory (99-105), the chunk file (108-111: not created, or created and cut
\* short) and write_index_file (76-80 the truncating open, 82 the serializer)
WriteFaults ==
    {"compress", "encrypt", "mkdir", "store_open", "store_write", "save_open",
     "save_write"}

\* the catalog file after the truncating open when the serializer then fails
Truncated == [state |-> "corrupt", backups |-> <<>>]

\* a failing write that takes back the chunk file it stored
WriteFault_cleanup(file_part, raw, fault) ==
    LET idx == index_file(index)
    IN  /\ nwrites < MaxWrites
        /\ nwrites' = nwrites + 1
        /\ fault \in WriteFaults
        /\ fault = "compress" => enable_compression
        /\ fault = "encrypt" => encryption_key # NoKey
        /\ fault \in {"save_open", "save_write"} => idx.ok
        /\ dirs' = dirs
        /\ index' = IF fault = "save_write" THEN Truncated ELSE index
        /\ ret' = IF fault \in {"compress", "encrypt"} THEN "TransformFailure"
                  ELSE "StorageIO"
        /\ written' = written
        /\ op' = Called("write", fault, 0, HasRecord(index.backups, dump_name))
        /\ delivered' = <<>>
        /\ UNCHANGED <<dump_name, enable_compression, encryption_key, now, inflight>>

\* Datastore::write with the step named by fault failing, if the call gets there
WriteFault(file_part, raw, fault) ==
    LET data == Transform(raw, enable_compression, encryption_key)
        dir == dirs[dump_name]
        made == [dirs EXCEPT ![dump_name].exists = TRUE]
        cut == [dirs EXCEPT ![dump_name] =
                   [exists |-> TRUE, files |-> (file_part :> <<>>) @@ dir.files]]
        stored == [dirs EXCEPT ![dump_name] =
                      [exists |-> TRUE, files |-> (file_part :> data) @@ dir.files]]
        idx == index_file(index)
        touched == fault \in {"store_write", "save_open", "save_write"}
    IN  /\ nwrites < MaxWrites
        /\ nwrites' = nwrites + 1
        /\ fault \in WriteFaults
        /\ fault = "compress" => enable_compression
        /\ fault = "encrypt" => encryption_key # NoKey
        /\ fault \in {"save_open", "save_write"} => idx.ok
        /\ dirs' = CASE fault \in {"compress", "encrypt", "mkdir"} -> dirs
                     [] fault = "store_open" -> made
                     [] fault = "store_write" -> cut
                     [] OTHER -> stored
        /\ index' = IF fault = "save_write" THEN Truncated ELSE index
        /\ ret' = IF fault \in {"compress", "encrypt"} THEN "TransformFailure"
                  ELSE "StorageIO"
        /\ written' = IF touched
                      THEN [written EXCEPT ![dump_name] =
                              Append(@, [part |-> file_part, raw |-> raw,
                                         comp |-> enable_compression,
                                         key |-> encryption_key, ok |-> FALSE])]
                      ELSE written
        /\ op' = Called("write", fault, 0, HasRecord(index.backups, dump_name))
        /\ delivered' = <<>>
        /\ UNCHANGED <<dump_name, enable_compression, encryption_key, now, inflight>>

\* ------------------------------------------------------------------ read
\* IndexFile::find_backup (datastore/mod.rs): Latest is the record with the greatest
\* created_at (the last of them in catalog order on a tie), a name the first match.
Latest == "latest"

\* Latest resolved to the oldest record
find_backup_oldest(backups, options) ==
    IF options = Latest
    THEN IF backups = <<>> THEN 0
         ELSE CHOOSE i \in 1..Len(backups) :
                \A j \in 1..Len(backups) : backups[i].created_at <= backups[j].created_at
    ELSE FindIdx(backups, options)

find_backup(backups, options) ==
    IF options = Latest
    THEN IF backups = <<>> THEN 0
         ELSE CHOOSE i \in 1..Len(backups) :
                /\ \A j \in 1..Len(backups) : backups[j].created_at <= backups[i].created_at
                /\ \A j \in (i + 1)..Len(backups) :
                      backups[j].created_at < backups[i].created_at
    ELSE FindIdx(backups, options)

\* the orders in which read_dir may list the files of a directory
Listings(files) ==
    {o \in [1..Cardinality(DOMAIN files) -> DOMAIN files] :
        \A i, j \in DOMAIN o : i # j => o[i] # o[j]}

\* the loop body skipping decryption when no key is configured
ReadChunk_skip(data, backup, key) ==
    LET d == IF backup.encrypted /\ key # NoKey THEN decrypt(data, key)
             ELSE [ok |-> TRUE, data |-> data]
    IN  IF ~d.ok THEN [ret |-> "TransformFailure", data |-> <<>>]
        ELSE LET u == IF backup.compressed THEN decompress(d.data) ELSE d
             IN  IF ~u.ok THEN [ret |-> "TransformFailure", data |-> <<>>]
                 ELSE [ret |-> "Ok", data |-> u.data]

\* the body of the loop of read for one chunk (local_disk.rs 159-179)
ReadChunk(data, backup, key) ==
    IF backup.encrypted /\ key = NoKey
    THEN [ret |-> "Panic", data |-> <<>>]
    ELSE LET d == IF backup.encrypted THEN decrypt(data, key)
                  ELSE [ok |-> TRUE, data |-> data]
         IN  IF ~d.ok THEN [ret |-> "TransformFailure", data |-> <<>>]
             ELSE LET u == IF backup.compressed THEN decompress(d.data) ELSE d
                  IN  IF ~u.ok THEN [ret |-> "TransformFailure", data |-> <<>>]
                      ELSE [ret |-> "Ok", data |-> u.data]

\* the loop of read over the listed files: stops at the first failure
RECURSIVE ReadLoop(_, _, _, _)
ReadLoop(datas, backup, key, acc) ==
    IF datas = <<>> THEN [ret |-> "Ok", delivered |-> acc]
    ELSE LET c == ReadChunk(Head(datas), backup, key)
         IN  IF c.ret # "Ok" THEN [ret |-> c.ret, delivered |-> acc]
             ELSE ReadLoop(Tail(datas), backup, key, Append(acc, c.data))

\* read loading the catalog the way init does
Read_initializing(options) ==
    LET idx == index_file(create_index_file(index))
        i == find_backup(idx.backups, options)
    IN  /\ index' = create_index_file(index)
        /\ UNCHANGED <<dirs, dump_name, enable_compression, encryption_key, now,
                       nwrites, written, inflight>>
        /\ IF i = 0
           THEN /\ ret' = "NotFound"
                /\ delivered' = <<>>
                /\ op' = Called("read", "", 0, FALSE)
           ELSE LET backup == idx.backups[i]
                    dir == dirs[backup.directory_name]
                IN  /\ op' = Called("read", backup.directory_name, 0, TRUE)
                    /\ IF ~dir.exists
                       THEN /\ ret' = "NotFound"
                            /\ delivered' = <<>>
                       ELSE \E o \in Listings(dir.files) :
                              LET r == ReadLoop([k \in DOMAIN o |-> dir.files[o[k]]],
                                                backup, encryption_key, <<>>)
                              IN  /\ ret' = r.ret
                                  /\ delivered' = r.delivered

\* Datastore::read
Read(options) ==
    LET idx == index_file(index)
        i == find_backup(idx.backups, options)
    IN  /\ UNCHANGED <<index, dirs, dump_name, enable_compression, encryption_key, now,
                       nwrites, written, inflight>>
        /\ IF ~idx.ok
           THEN /\ ret' = idx.err
                /\ delivered' = <<>>
                /\ op' = Called("read", "", 0, FALSE)
           ELSE IF i = 0
           THEN /\ ret' = "NotFound"
                /\ delivered' = <<>>
                /\ op' = Called("read", "", 0, FALSE)
           ELSE LET backup == idx.backups[i]
                    dir == dirs[backup.directory_name]
                IN  /\ op' = Called("read", backup.directory_name, 0, TRUE)
                    /\ IF ~dir.exists
                       THEN /\ ret' = "NotFound"
                            /\ delivered' = <<>>
                       ELSE \E o \in Listings(dir.files) :
                              LET r == ReadLoop([k \in DOMAIN o |-> dir.files[o[k]]],
                                                backup, encryption_key, <<>>)
                              IN  /\ ret' = r.ret
                                  /\ delivered' = r.delivered

\* ------------------------------------------------------------------ delete
\* delete_by_name with the retain test inverted
delete_by_name_inverted(name, idx0, dirs0) ==
    LET idx == index_file(idx0)
    IN  IF ~idx.ok THEN [index |-> idx0, dirs |-> dirs0, ret |-> idx.err]
        ELSE IF ~dirs0[name].exists
        THEN [index |-> idx0, dirs |-> dirs0, ret |-> "NotFound"]
        ELSE [index |-> write_index_file(
                            SelectSeq(idx.backups, LAMBDA b : b.directory_name = name)),
              dirs |-> [dirs0 EXCEPT ![name] = NoDir],
              ret |-> "Ok"]

\* Datastore::delete_by_name on a catalog file and a directory tree
delete_by_name(name, idx0, dirs0) ==
    LET idx == index_file(idx0)
    IN  IF ~idx.ok THEN [index |-> idx0, dirs |-> dirs0, ret |-> idx.err]
        ELSE IF ~dirs0[name].exists
        THEN [index |-> idx0, dirs |-> dirs0, ret |-> "NotFound"]
        ELSE [index |-> write_index_file(
                            SelectSeq(idx.backups, LAMBDA b : b.directory_name # name)),
              dirs |-> [dirs0 EXCEPT ![name] = NoDir],
              ret |-> "Ok"]

DeleteByName(name) ==
    LET r == delete_by_name(name, index, dirs)
    IN  /\ op' = Called("delete_by_name", "", 0, HasRecord(index.backups, name))
        /\ index' = r.index
        /\ dirs' = r.dirs
        /\ ret' = r.ret
        /\ written' = Touch(written, r.dirs)
        /\ delivered' = <<>>
        /\ UNCHANGED <<dump_name, enable_compression, encryption_key, now, nwrites,
                       inflight>>

\* the ways delete_by_name stops after it loaded the catalog: remove_dir_all fails
\* (214-217), the process dies between remove_dir_all and write_index_file, or
\* write_index_file fails at its open or in the serializer (222)
DeleteFaults == {"remove_dir", "crash", "save_open", "save_write"}

\* a failing delete_by_name that updates the catalog before the directory
DeleteFault_catalog_first(name, fault) ==
    LET idx == index_file(index)
    IN  /\ op' = Called("delete_by_name", fault, 0, HasRecord(index.backups, name))
        /\ fault \in DeleteFaults
        /\ idx.ok /\ dirs[name].exists
        /\ dirs' = dirs
        /\ index' = IF fault \in {"remove_dir", "crash"}
                    THEN write_index_file(
                            SelectSeq(idx.backups, LAMBDA b : b.directory_name # name))
                    ELSE IF fault = "save_write" THEN Truncated ELSE index
        /\ written' = written
        /\ ret' = IF fault = "crash" THEN "Crashed" ELSE "StorageIO"
        /\ delivered' = <<>>
        /\ IF fault = "crash"
           THEN /\ dump_name' = DefaultName
                /\ enable_compression' = TRUE
                /\ encryption_key' = NoKey
           ELSE UNCHANGED <<dump_name, enable_compression, encryption_key>>
        /\ UNCHANGED <<now, nwrites, inflight>>

\* Datastore::delete_by_name stopping at the step named by fault; after a crash the
\* next calls come from a new engine instance on the same root
DeleteFault(name, fault) ==
    LET idx == index_file(index)
    IN  /\ op' = Called("delete_by_name", fault, 0, HasRecord(index.backups, name))
        /\ fault \in DeleteFaults
        /\ idx.ok /\ dirs[name].exists
        /\ IF fault = "remove_dir"
           THEN \E left \in SUBSET DOMAIN dirs[name].files :
                   dirs' = [dirs EXCEPT ![name].files =
                               [p \in left |-> dirs[name].files[p]]]
           ELSE dirs' = [dirs EXCEPT ![name] = NoDir]
        /\ index' = IF fault = "save_write" THEN Truncated ELSE index
        /\ written' = Touch(written, dirs')
        /\ ret' = IF fault = "crash" THEN "Crashed" ELSE "StorageIO"
        /\ delivered' = <<>>
        /\ IF fault = "crash"
           THEN /\ dump_name' = DefaultName
                /\ enable_compression' = TRUE
                /\ encryption_key' = NoKey
           ELSE UNCHANGED <<dump_name, enable_compression, encryption_key>>
        /\ UNCHANGED <<now, nwrites, inflight>>

\* ------------------------------------------------------------------ retention
\* Datastore::delete_keep_last and Datastore::delete_older_than (datastore/mod.rs):
\* select records of the catalog, then delete_by_name each selected record's name in
\* turn, stopping at the first failure.
RECURSIVE delete_all(_, _, _)
delete_all(names, idx0, dirs0) ==
    IF names = <<>> THEN [index |-> idx0, dirs |-> dirs0, ret |-> "Ok"]
    ELSE LET r == delete_by_name(Head(names), idx0, dirs0)
         IN  IF r.ret # "Ok" THEN r ELSE delete_all(Tail(names), r.index, r.dirs)

\* catalog positions, oldest created_at first (stable)
OldestFirst(backups) ==
    LET n == Len(backups)
        before(i, j) == \/ backups[i].created_at < backups[j].created_at
                        \/ backups[i].created_at = backups[j].created_at /\ i < j
        rank(i) == 1 + Cardinality({j \in 1..n : before(j, i)})
    IN  [k \in 1..n |-> CHOOSE i \in 1..n : rank(i) = k]

\* keep-last(count) selecting one record too many
keep_last_selection_one_more(backups, keep_last) ==
    LET order == OldestFirst(backups)
        n == Len(backups) - keep_last + 1
        surplus == IF n > Len(backups) THEN Len(backups) ELSE n
    IN  IF surplus <= 0 THEN <<>>
        ELSE [k \in 1..surplus |-> backups[order[k]].directory_name]

\* keep-last(count): every record beyond the count most recent
keep_last_selection(backups, keep_last) ==
    LET order == OldestFirst(backups)
        surplus == Len(backups) - keep_last
    IN  IF surplus <= 0 THEN <<>>
        ELSE [k \in 1..surplus |-> backups[order[k]].directory_name]

\* older-than(days): every record created strictly before now - days
older_than_selection(backups, days, t) ==
    LET old == SelectSeq(backups, LAMBDA b : b.created_at < t - days)
    IN  [k \in 1..Len(old) |-> old[k].directory_name]

Retain(kind, arg, selection) ==
    LET idx == index_file(index)
        r == IF idx.ok THEN delete_all(selection, index, dirs)
             ELSE [index |-> index, dirs |-> dirs, ret |-> idx.err]
    IN  /\ op' = Called(kind, "", 0, selection # <<>>)
        /\ index' = r.index
        /\ dirs' = r.dirs
        /\ ret' = r.ret
        /\ written' = Touch(written, r.dirs)
        /\ delivered' = <<>>
        /\ UNCHANGED <<dump_name, enable_compression, encryption_key, now, nwrites,
                       inflight>>

DeleteKeepLast(keep_last) ==
    Retain("delete_keep_last", keep_last, keep_last_selection(index.backups, keep_last))

DeleteOlderThan(days) ==
    Retain("delete_older_than", days, older_than_selection(index.backups, days, now))

Next ==
    \/ InitOp
    \/ \E n \in Names : SetDumpName(n)
    \/ \E b \in BOOLEAN : SetCompression(b)
    \/ \E p \in Parts, d \in Payloads : Write(p, d)
    \/ \E o \in {Latest} \cup Names : Read(o)
    \/ \E n \in Names : DeleteByName(n)

\* the engine without an encryption key, the clock standing still
Spec == Init /\ [][Next]_vars

\* the engine with an encryption key, writing and reading one dump
NextEnc ==
    \/ InitOp
    \/ \E b \in BOOLEAN : SetCompression(b)
    \/ \E k \in Keys : SetEncryptionKey(k)
    \/ \E p \in Parts, d \in Payloads : Write(p, d)
    \/ \E o \in {Latest} \cup Names : Read(o)

SpecEnc == Init /\ [][NextEnc]_vars

\* the engine with the clock running and the retention requests; every write
\* call stores chunk 1, empty or one byte long, and no encryption key is set
NextClock ==
    \/ InitOp
    \/ \E n \in Names : SetDumpName(n)
    \/ \E b \in BOOLEAN : SetCompression(b)
    \/ Tick
    \/ \E d \in {<<>>, <<0>>} : Write(1, d)
    \/ \E o \in {Latest} \cup Names : Read(o)
    \/ \E n \in Names : DeleteByName(n)
    \/ \E k \in 0..MaxWrites : DeleteKeepLast(k)
    \/ \E d \in 0..MaxTime : DeleteOlderThan(d)

SpecClock == Init /\ [][NextClock]_vars

\* engines following one another on the same root, with or without the key the
\* dump was written with; every write call carries the same one-byte payload
NextKey ==
    \/ InitOp
    \/ New
    \/ \E e \in BOOLEAN : SetCompression(e)
    \/ \E k \in Keys : SetEncryptionKey(k)
    \/ \E p \in Parts : Write(p, <<0>>)
    \/ \E o \in {Latest} \cup Names : Read(o)

SpecKey == Init /\ [][NextKey]_vars

\* the engine with failing transforms and a failing disk under write; every write
\* call carries the same one-byte payload
NextFault ==
    \/ InitOp
    \/ \E e \in BOOLEAN : SetCompression(e)
    \/ \E k \in Keys : SetEncryptionKey(k)
    \/ \E p \in Parts : Write(p, <<0>>)
    \/ \E p \in Parts, f \in WriteFaults : WriteFault(p, <<0>>, f)

SpecFault == Init /\ [][NextFault]_vars

\* the engine with delete_by_name failing or the process dying inside it; every
\* write call stores the same chunk 1
NextCrash ==
    \/ InitOp
    \/ \E n \in Names : SetDumpName(n)
    \/ Write(1, <<0>>)
    \/ \E o \in {Latest} \cup Names : Read(o)
    \/ \E n \in Names : DeleteByName(n)
    \/ \E n \in Names, f \in DeleteFaults : DeleteFault(n, f)

SpecCrash == Init /\ [][NextCrash]_vars

\* two more engine instances writing chunk 1 of their own dumps step by step,
\* next to the engine's own write calls; every call carries the same payload
NextRace ==
    \/ InitOp
    \/ \E p \in Parts : Write(p, <<0>>)
    \/ \E w \in Writers : RaceStore(w, <<0>>)
    \/ \E w \in Writers : RaceLoad(w)
    \/ \E w \in Writers : RaceSave(w)

SpecRace == Init /\ [][NextRace]_vars

\* ------------------------------------------------------------------ properties
RECURSIVE Concat(_)
Concat(chunks) ==
    IF chunks = <<>> THEN <<>> ELSE Head(chunks) \o Concat(Tail(chunks))

RECURSIVE SumSeq(_)
SumSeq(q) == IF q = <<>> THEN 0 ELSE Head(q) + SumSeq(Tail(q))

Record(name) == index.backups[FindIdx(index.backups, name)]

\* the write calls of a dump that returned Ok
Stored(name) == SelectSeq(written[name], LAMBDA w : w.ok)

\* a dump written from a fresh name by successful write calls with distinct chunk
\* numbers, all under the configuration the engine still has
FreshDump(name) ==
    LET w == written[name]
    IN  /\ w # <<>>
        /\ \A i \in DOMAIN w :
              /\ w[i].ok
              /\ w[i].comp = enable_compression
              /\ w[i].key = encryption_key
        /\ \A i, j \in DOMAIN w : i # j => w[i].part # w[j].part

RawWritten(name) == [i \in DOMAIN written[name] |-> written[name][i].raw]

\* C1: reading a dump written from a fresh name under a fixed configuration
\* succeeds and hands the callback chunks whose concatenation is the payloads
\* B1..Bn in write order.
RoundTrip ==
    (op.kind = "read" /\ op.found /\ FreshDump(op.name))
        => (ret = "Ok" /\ Concat(delivered) = Concat(RawWritten(op.name)))

\* C1, what the code does guarantee: the chunks handed over are the payloads
\* written, each once, in some order of the directory listing.
RoundTripSomeOrder ==
    (op.kind = "read" /\ op.found /\ FreshDump(op.name))
        => /\ ret = "Ok"
           /\ Len(delivered) = Len(RawWritten(op.name))
           /\ \E o \in [DOMAIN delivered -> DOMAIN delivered] :
                 /\ \A i, j \in DOMAIN o : i # j => o[i] # o[j]
                 /\ \A i \in DOMAIN o : delivered[i] = RawWritten(op.name)[o[i]]

\* C2: the persisted catalog holds at most one record per directory_name.
CatalogUnique ==
    \A i, j \in DOMAIN index.backups :
        i # j => index.backups[i].directory_name # index.backups[j].directory_name

\* C3: the record of a name has size T1 + ... + TN, the transformed lengths of
\* the successful write calls to that name since it had no record.
SizeAccounting ==
    \A n \in Names :
        HasRecord(index.backups, n) =>
            Record(n).size =
                SumSeq([i \in DOMAIN Stored(n) |->
                          Len(Transform(Stored(n)[i].raw, Stored(n)[i].comp,
                                        Stored(n)[i].key))])

\* C4: a write to a name that has a record changes that record's size only:
\* its flags and created_at, the other records and the number of records stay.
RecordImmutable ==
    [][\A p \in Parts, d \in Payloads :
         (HasRecord(index.backups, dump_name) /\ ret' = "Ok" /\ Write(p, d)) =>
            LET i == FindIdx(index.backups, dump_name)
            IN  /\ Len(index'.backups) = Len(index.backups)
                /\ \A j \in DOMAIN index.backups :
                      index'.backups[j] =
                        IF j = i
                        THEN [index.backups[j] EXCEPT !.size = index'.backups[j].size]
                        ELSE index.backups[j]]_vars

Others(backups, name) == SelectSeq(backups, LAMBDA b : b.directory_name # name)

\* C5: a successful delete_by_name of a name that has a record removes that
\* name's record and directory; the other records and the other directories with
\* their chunk files are unchanged.
DeleteByNameFrame ==
    [][\A n \in Names :
         (HasRecord(index.backups, n) /\ ret' = "Ok" /\ DeleteByName(n)) =>
            /\ ~HasRecord(index'.backups, n)
            /\ ~dirs'[n].exists
            /\ Others(index'.backups, n) = Others(index.backups, n)
            /\ \A m \in Names \ {n} : dirs'[m] = dirs[m]]_vars

\* C5 has happened: a recorded dump was deleted and another dump is still there
DeletedOneOfTwo ==
    /\ op.kind = "delete_by_name" /\ op.found /\ ret = "Ok"
    /\ index.backups # <<>>
    /\ \E m \in Names : dirs[m].exists /\ HasRecord(index.backups, m)

\* C6: delete_by_name of a name without a record returns NotFound and leaves
\* the catalog file and the directories unchanged.
DeleteUnknownNotFound ==
    [][\A n \in Names :
         (~HasRecord(index.backups, n) /\ DeleteByName(n)) =>
            (ret' = "NotFound" /\ index' = index /\ dirs' = dirs)]_vars

DistinctCreated(backups) ==
    \A i, j \in DOMAIN backups : i # j => backups[i].created_at # backups[j].created_at

\* the positions of the k most recently created records
MostRecent(backups, k) ==
    {i \in DOMAIN backups :
        Cardinality({j \in DOMAIN backups :
                        backups[j].created_at > backups[i].created_at}) < k}

\* the catalog and the directories after removing exactly the records at the
\* positions outside keep
RemovedExactly(keep) ==
    /\ Len(index'.backups) = Cardinality(keep)
    /\ \A i \in keep :
          /\ \E j \in DOMAIN index'.backups : index'.backups[j] = index.backups[i]
          /\ dirs'[index.backups[i].directory_name].exists
          /\ dirs'[index.backups[i].directory_name] = dirs[index.backups[i].directory_name]
    /\ \A i \in DOMAIN index.backups \ keep :
          ~dirs'[index.backups[i].directory_name].exists

\* C7: on a catalog of records with distinct created_at, keep_last = K leaves
\* exactly the min(K, n) most recent records with their directories and removes
\* the record and the directory of every other.
KeepLastExact ==
    [][\A k \in 0..MaxWrites :
         (index.state = "ok" /\ DistinctCreated(index.backups) /\ DeleteKeepLast(k)) =>
            RemovedExactly(MostRecent(index.backups, k))]_vars

\* C8: older_than = d removes exactly the records created strictly before
\* now - d; every record with created_at >= now - d keeps record and directory.
OlderThanExact ==
    [][\A d \in 0..MaxTime :
         (index.state = "ok" /\ DeleteOlderThan(d)) =>
            RemovedExactly({i \in DOMAIN index.backups :
                              index.backups[i].created_at >= now - d})]_vars

\* C9: a keep_last request with count >= the number of records, and an
\* older_than request matching no record, return Ok and leave the catalog and
\* the directories unchanged.
EmptySelectionNoop ==
    [][/\ \A k \in 0..MaxWrites :
            (index.state = "ok" /\ k >= Len(index.backups) /\ DeleteKeepLast(k)) =>
                (ret' = "Ok" /\ index' = index /\ dirs' = dirs)
       /\ \A d \in 0..MaxTime :
            (/\ index.state = "ok"
             /\ \A i \in DOMAIN index.backups : index.backups[i].created_at >= now - d
             /\ DeleteOlderThan(d)) =>
                (ret' = "Ok" /\ index' = index /\ dirs' = dirs)]_vars

\* C9 has happened: a retention request selected nothing on a catalog with records
NothingSelected ==
    /\ op.kind \in {"delete_keep_last", "delete_older_than"}
    /\ ~op.found /\ ret = "Ok"
    /\ index.backups # <<>>

\* C10: init on an existing catalog returns Ok and leaves the catalog and the
\* directories unchanged; on a root without catalog file it persists an empty one.
InitIdempotent ==
    [][InitOp =>
         /\ ret' = "Ok"
         /\ dirs' = dirs
         /\ index.state = "ok" => index' = index
         /\ index.state = "absent" => index' = [state |-> "ok", backups |-> <<>>]]_vars

\* C10 has happened: init was called again on a catalog with records
InitAgain ==
    /\ op.kind = "init" /\ op.found /\ ret = "Ok"
    /\ index.backups # <<>>
    /\ \E m \in Names : dirs[m].exists

\* the record read selects for options, given the catalog loads
Selected(options) == index.backups[find_backup(index.backups, options)]

Selects(options) ==
    index.state = "ok" /\ find_backup(index.backups, options) # 0

\* C11: read, succeeding or failing at any step, leaves the catalog file and
\* every dump directory with its chunk files as they were.
ReadOnly ==
    [][\A o \in {Latest} \cup Names :
         (op'.kind = "read" /\ Read(o)) => (index' = index /\ dirs' = dirs)]_vars

\* C11 has happened: a read failed after the catalog load and the selection
ReadFailedMidway ==
    /\ op.kind = "read" /\ op.found
    /\ ret \in {"TransformFailure", "Panic"}
    /\ index.backups # <<>>

\* C12: read of a record marked encrypted by an engine without key does not
\* return Ok and hands nothing to the callback.
MissingKeyStops ==
    [][\A o \in {Latest} \cup Names :
         (/\ op'.kind = "read"
          /\ encryption_key = NoKey
          /\ Selects(o)
          /\ Selected(o).encrypted
          /\ Read(o)) => (ret' = "Panic" /\ delivered' = <<>>)]_vars

\* C12 has happened: an encrypted dump was read by an engine without key
ReadWithoutKey ==
    /\ op.kind = "read" /\ op.found /\ ret = "Panic"
    /\ encryption_key = NoKey
    /\ Record(op.name).encrypted
    /\ dirs[op.name].exists

\* the last write call that stored chunk p of a dump
LastWriteOf(name, p) ==
    LET w == written[name]
        k == CHOOSE i \in DOMAIN w :
                /\ w[i].part = p
                /\ \A j \in DOMAIN w : (j > i) => w[j].part # p
    IN  w[k]

\* C18: every chunk file stored under a recorded dump was produced with the
\* transforms the dump's record names in its compressed / encrypted flags.
ChunksMatchFlags ==
    \A n \in Names :
        (HasRecord(index.backups, n) /\ dirs[n].exists) =>
            \A p \in DOMAIN dirs[n].files :
                /\ LastWriteOf(n, p).comp = Record(n).compressed
                /\ (LastWriteOf(n, p).key # NoKey) = Record(n).encrypted

\* the positions of the records created last
Newest(backups) ==
    {i \in DOMAIN backups :
        \A j \in DOMAIN backups : backups[j].created_at <= backups[i].created_at}

\* every chunk handed to the callback is a chunk file of dump name, reversed as
\* record b tells
ChunksOf(chunks, name, b) ==
    /\ Len(chunks) <= Cardinality(DOMAIN dirs[name].files)
    /\ \A k \in DOMAIN chunks :
          \E p \in DOMAIN dirs[name].files :
              LET c == ReadChunk(dirs[name].files[p], b, encryption_key)
              IN  c.ret = "Ok" /\ c.data = chunks[k]

\* C13: read with Latest hands on chunks of a record with the greatest created_at
\* and of that dump only, all of them when it returns Ok; with no record in the
\* catalog it returns NotFound and hands on nothing.
LatestSelection ==
    [][(op'.kind = "read" /\ Read(Latest)) =>
         IF index.backups = <<>>
         THEN ret' = "NotFound" /\ delivered' = <<>>
         ELSE \E i \in Newest(index.backups) :
                 LET b == index.backups[i]
                 IN  /\ op'.found /\ op'.name = b.directory_name
                     /\ ChunksOf(delivered', b.directory_name, b)
                     /\ (ret' = "Ok") =>
                           Len(delivered') =
                             Cardinality(DOMAIN dirs[b.directory_name].files)]_vars

\* C13 has happened: Latest was read with an older dump of another name in the
\* catalog, and its chunk came out
ReadLatestOfTwo ==
    /\ op.kind = "read" /\ op.found /\ ret = "Ok" /\ delivered # <<>>
    /\ Len(index.backups) = 2
    /\ index.backups[1].directory_name # op.name
    /\ index.backups[1].created_at < index.backups[2].created_at
    /\ index.backups[2].directory_name = op.name

\* C13, the empty case, has happened
ReadLatestOfNone ==
    op.kind = "read" /\ ~op.found /\ ret = "NotFound" /\ index.state = "ok"
      /\ index.backups = <<>>

\* the total length of the chunk files now in a dump's directory
StoredBytes(name) ==
    LET f == dirs[name].files
    IN  SumSeq([k \in 1..Cardinality(DOMAIN f) |->
                  Len(f[CHOOSE p \in DOMAIN f :
                          Cardinality({q \in DOMAIN f : q < p}) = k - 1])])

\* a dump whose write calls since its directory came to be all returned Ok
OnlyOkWrites(name) ==
    written[name] # <<>> /\ \A i \in DOMAIN written[name] : written[name][i].ok

\* C19: after successful writes, with whatever chunk numbers, the size in a
\* dump's record is the total length of the chunk files in its directory.
SizeMatchesStorage ==
    \A n \in Names :
        (HasRecord(index.backups, n) /\ OnlyOkWrites(n)) =>
            Record(n).size = StoredBytes(n)

\* what a write call that does not return Ok leaves behind; after_cut is the
\* catalog file expected when the save fails behind its truncating open
FailedWriteLeaves(p, d, after_cut) ==
    LET data == Transform(d, enable_compression, encryption_key)
        chunk_stays == /\ dirs'[dump_name].exists
                       /\ p \in DOMAIN dirs'[dump_name].files
                       /\ dirs'[dump_name].files[p] = data
                       /\ \A n \in Names \ {dump_name} : dirs'[n] = dirs[n]
    IN  /\ \A f \in {"compress", "encrypt"} :
              WriteFault(p, d, f) =>
                 ret' = "TransformFailure" /\ dirs' = dirs /\ index' = index
        /\ \A f \in {"mkdir", "store_open", "store_write"} :
              WriteFault(p, d, f) => ret' = "StorageIO" /\ index' = index
        /\ (~index_file(index).ok /\ Write(p, d)) =>
              ret' = index_file(index).err /\ chunk_stays /\ index' = index
        /\ WriteFault(p, d, "save_open") =>
              ret' = "StorageIO" /\ chunk_stays /\ index' = index
        /\ WriteFault(p, d, "save_write") =>
              ret' = "StorageIO" /\ chunk_stays /\ index' = after_cut
        /\ (index_file(index).ok /\ Write(p, d)) =>
              ret' = "Ok" /\ chunk_stays /\ HasRecord(index'.backups, dump_name)

\* C14: write stops at its first failing step with that error; a failing
\* transform leaves no chunk file and no catalog change; a failing catalog load
\* or save leaves the chunk file in place and the catalog file as it was.
WriteFailureSemantics ==
    [][\A p \in Parts : FailedWriteLeaves(p, <<0>>, index)]_vars

\* C14, amended: as above, but a save that fails behind its truncating open
\* leaves the catalog file cut short and unparsable; only a save that fails at
\* the open leaves it as it was.
WriteFailureTruncates ==
    [][\A p \in Parts : FailedWriteLeaves(p, <<0>>, Truncated)]_vars

\* C14 has happened: a write stored its chunk, then failed saving a catalog
\* that held a record, and the catalog file no longer parses
SaveFailedAfterTruncate ==
    /\ op.kind = "write" /\ op.name = "save_write" /\ op.found
    /\ ret = "StorageIO"
    /\ index.state = "corrupt"
    /\ dirs[dump_name].exists

\* C17: init leaves a catalog file that is present as it is, whatever it holds,
\* and creates an empty catalog only when there is no file; it removes no
\* directory.
InitPreserves ==
    [][InitOp =>
         /\ dirs' = dirs
         /\ index' = IF index.state = "absent" THEN write_index_file(<<>>)
                     ELSE index]_vars

DanglingRemovable ==
    [][\A n \in Names :
         (index.state = "ok" /\ HasRecord(index.backups, n) /\ DeleteByName(n)) =>
            ret' = "Ok" /\ ~HasRecord(index'.backups, n)]_vars

\* every name recorded in the catalog before the step is recorded after it
KeepsNames ==
    \A n \in Names : HasRecord(index.backups, n) => HasRecord(index'.backups, n)

\* C16: a write that saves the catalog leaves a record for its name; when no
\* other writer saved between its load and its save, which is every write of a
\* single writer, it also keeps the records of all other names. (That both
\* racing writes succeed and one name is lost is the reachable state LostUpdate.)
SingleWriterRecords ==
    [][/\ \A w \in Writers :
            (inflight[w].pc = "loaded" /\ RaceSave(w)) =>
               /\ HasRecord(index'.backups, WriterName(w))
               /\ (inflight[w].backups = index.backups) => KeepsNames
       /\ \A p \in Parts :
            (index.state = "ok" /\ Write(p, <<0>>)) =>
               ret' = "Ok" /\ HasRecord(index'.backups, dump_name) /\ KeepsNames]_vars

\* C16 has happened: both racing writes returned Ok, both chunk files are on
\* disk, and the catalog has a record for one of the two names only
LostUpdate ==
    /\ \A w \in Writers :
          /\ inflight[w].pc = "done" /\ inflight[w].ret = "Ok"
          /\ dirs[WriterName(w)].exists
          /\ 1 \in DOMAIN dirs[WriterName(w)].files
    /\ index.state = "ok"
    /\ \E w \in Writers :
          /\ HasRecord(index.backups, WriterName(w))
          /\ \A v \in Writers \ {w} : ~HasRecord(index.backups, WriterName(v))

====
